---- MODULE Spec2Model ----
(***************************************************************************)
(* A model of main.py, the concurrent Habr hub scraper.                    *)
(*                                                                         *)
(*   SpecHub : one call of parse_hub, step by step (the page loop, the     *)
(*             scroll loop, the per-node extraction loop, the browser      *)
(*             session), followed by the merge main applies to its result. *)
(*   SpecCsv : one call of save_to_csv on an arbitrary article list.       *)
(*   Spec    : main: the worker pool, one future per (hub, difficulty),    *)
(*             as_completed, the merge and the final save_to_csv.          *)
(*                                                                         *)
(* The web site and the browser are the environment: which pages carry the *)
(* marker, what each page's nodes are, how the page height evolves and     *)
(* where the driver raises are nondeterministic choices.                   *)
(***************************************************************************)
EXTENDS Integers, Sequences, FiniteSets, TLC

\* ------------------------------------------------------------- constants

\* main.py:47
NUM_PAGES_PER_SEARCH == 16

\* main.py:48
ALLOWED_DIFFICULTIES == <<"/hard", "/medium">>

\* ---------------------------------------------------------------- bounds

\* Number of hub templates in SEARCH_TAGS (7 in the source).
NumHubs == 2
\* Largest worker-pool width the machine may give the executor.
MaxWorkers == 2
\* Largest number of article nodes find_elements returns for one page.
MaxNodes == 2
\* Largest number of articles one hub yields over all its pages.
MaxCollected == 2
\* Largest number of lazy loads after which a stabilising page stops growing.
MaxLoads == 1
\* Longest article list handed to save_to_csv on its own.
MaxCsvLen == 3

\* ------------------------------------------------------------------ data

Titles == {"A", "B", "C"}
Links == {"L1", "L2"}

\* An article as parse_article returns it.
Article == [title : Titles, link : Links]

Art(t, l) == [title |-> t, link |-> l]

\* The articles the hubs of the site carry.
HubArticles == {Art("A", "L1"), Art("B", "L2")}

\* An article node of a listing page: its title link is present, or the wait
\* for it times out.
NoLink == [present |-> FALSE, title |-> "", link |-> ""]

Node(a) == [present |-> TRUE, title |-> a.title, link |-> a.link]

Nodes == {NoLink} \cup {Node(a) : a \in HubArticles}

\* Sequences over S of length lo..hi.
SeqsOf(S, lo, hi) == UNION {[1..n -> S] : n \in lo..hi}

Range(s) == {s[i] : i \in 1..Len(s)}

\* How many elements of s satisfy present.
RECURSIVE CountPresent(_)
CountPresent(ns) ==
    IF ns = <<>> THEN 0
    ELSE (IF Head(ns).present THEN 1 ELSE 0) + CountPresent(Tail(ns))

\* ------------------------------------------------------------- variables

VARIABLES
    \* --- the site, as one parse_hub call meets it
    K,                 \* pages 1..K of the hub carry the marker, page K+1 does not
    height,            \* document.body.scrollHeight of the page now loaded
    pending,           \* lazy loads the loaded page still has to make
    stable,            \* FALSE: the loaded page's height changes at every measurement
    \* --- parse_hub
    hpc,               \* where the call stands
    driver,            \* the browser session: "none", "open", "closed"
    quits,             \* number of driver.quit() calls made
    page_number,
    navigated,         \* page numbers passed to driver.get, in order
    scrolled,          \* pages scroll_to_load_articles was called on
    extracted,         \* pages parse_articles returned for
    last_height,
    new_height,
    articles,          \* parse_articles: the nodes find_elements returned
    idx,               \* parse_articles: position of the for loop in articles
    page_articles,     \* parse_articles: its local parsed_articles
    hub_articles,      \* parse_hub: its local parsed_articles
    \* --- main
    CPU_THREADS,       \* os.getenv('CPU_THREADS'): "None" when unset, else the string
    width,             \* number of worker threads the pool runs
    mpc,
    futures,           \* the futures list: tasks in submission order
    status,            \* per task: "new", "queued", "running", "returned", "raised"
    result,            \* per task: the list its parse_hub returned
    yielded,           \* futures as_completed has handed to the loop
    parsed_articles,   \* main's global collection
    waiting_at_raise,  \* tasks not yet finished when future.result() raised
    \* --- save_to_csv
    cpc,
    csv_articles,      \* the parsed_articles argument
    unique_links,      \* links of the set still to be iterated
    file               \* rows written so far, header first

siteVars == <<K, height, pending, stable>>
hubVars == <<hpc, driver, quits, page_number, navigated, scrolled, extracted,
             last_height, new_height, articles, idx, page_articles, hub_articles>>
poolVars == <<CPU_THREADS, width, futures, status, result, yielded, waiting_at_raise>>
csvVars == <<cpc, csv_articles, unique_links, file>>
vars == <<siteVars, hubVars, poolVars, mpc, parsed_articles, csvVars>>

\* What a step of parse_hub cannot touch: the pool, main's position, the file.
rest == <<poolVars, mpc, csvVars>>

\* ---------------------------------------------------- the pure functions

\* Faulty variants of open_habr_hub's verdict: the except branch returning
\* True, and a page too many taken as present.
MarkerPresent_except_true(k, page) == TRUE
MarkerPresent_one_more(k, page) == page <= k + 1

\* open_habr_hub's verdict: the wait finds the marker, or times out.
MarkerPresent(k, page) == page <= k

\* A faulty variant: the loop left as soon as the page did not shrink.
ScrollDone_not_smaller(new, last) == new >= last

\* scroll_to_load_articles: the test that leaves the while loop.
ScrollDone(new, last) == new = last

\* The height the page has after one more scroll to the bottom and the pause.
HeightCap == MaxLoads + 2
HeightAfterScroll(h, left, stab) ==
    IF stab THEN (IF left > 0 THEN h + 1 ELSE h)
    ELSE (IF h >= HeightCap THEN 1 ELSE h + 1)

\* parse_article: the article of a node whose title link is present.
parse_article(node) == [title |-> node.title, link |-> node.link]

\* A faulty variant: break instead of continue.
AfterFailure_break(i, n) == n + 1

\* parse_articles' loop after a node whose parse_article raised: continue.
AfterFailure(i, n) == i + 1

\* parse_articles as a whole: the loop over the nodes, in order.
RECURSIVE parse_articles(_)
parse_articles(ns) ==
    IF ns = <<>> THEN <<>>
    ELSE IF Head(ns).present
         THEN <<parse_article(Head(ns))>> \o parse_articles(Tail(ns))
         ELSE parse_articles(Tail(ns))

\* main: `if result: parsed_articles.extend(result)`.
Extend(all, res) == IF res # <<>> THEN all \o res ELSE all

\* ------------------------------------------------------------ parse_hub

HubEnded == {"returned", "merged", "raised"}

\* The locals of parse_articles, outside a call of it.
NoPage == articles = <<>> /\ idx = 0 /\ page_articles = <<>>

\* The state of the hub variables before parse_hub is called.
HubIdle ==
    /\ height = 0 /\ pending = 0 /\ stable = TRUE
    /\ driver = "none" /\ quits = 0 /\ page_number = 0
    /\ navigated = <<>> /\ scrolled = {} /\ extracted = {}
    /\ last_height = 0 /\ new_height = 0
    /\ NoPage /\ hub_articles = <<>>

\* initialize_driver, and parse_hub's first two lines.
initialize_driver ==
    /\ hpc = "call"
    /\ driver' = "open"
    /\ hub_articles' = <<>>
    /\ page_number' = 1
    /\ hpc' = "loop"
    /\ UNCHANGED <<rest, parsed_articles, siteVars, quits, navigated, scrolled, extracted, last_height,
                   new_height, articles, idx, page_articles>>

\* initialize_driver raises: webdriver.Firefox(...) before a session exists,
\* or install_addon once the session is open.
initialize_driver_raises ==
    /\ hpc = "call"
    /\ \E started \in BOOLEAN : driver' = IF started THEN "open" ELSE "none"
    /\ hpc' = "raised"
    /\ UNCHANGED <<rest, parsed_articles, siteVars, quits, page_number, navigated, scrolled, extracted,
                   last_height, new_height, articles, idx, page_articles, hub_articles>>

\* One pass of the for loop's head: open_habr_hub. driver.get navigates, the
\* wait finds the marker (the page loads, with its own height behaviour) or
\* times out (parse_hub breaks).
open_habr_hub ==
    /\ hpc = "loop"
    /\ page_number <= NUM_PAGES_PER_SEARCH
    /\ navigated' = Append(navigated, page_number)
    /\ IF MarkerPresent(K, page_number)
       THEN /\ hpc' = "scroll"
            /\ height' = 1
            /\ \E st \in BOOLEAN :
                 /\ stable' = st
                 /\ \E n \in 0..MaxLoads : pending' = IF st THEN n ELSE 0
       ELSE /\ hpc' = "quit"
            /\ UNCHANGED <<height, pending, stable>>
    /\ UNCHANGED <<rest, parsed_articles, K, driver, quits, page_number, scrolled, extracted, last_height,
                   new_height, articles, idx, page_articles, hub_articles>>

\* driver.get raises (it is outside open_habr_hub's try).
driver_get_raises ==
    /\ hpc = "loop"
    /\ page_number <= NUM_PAGES_PER_SEARCH
    /\ navigated' = Append(navigated, page_number)
    /\ hpc' = "raised"
    /\ UNCHANGED <<rest, parsed_articles, siteVars, driver, quits, page_number, scrolled, extracted,
                   last_height, new_height, articles, idx, page_articles, hub_articles>>

\* range(1, NUM_PAGES_PER_SEARCH + 1) is exhausted.
range_exhausted ==
    /\ hpc = "loop"
    /\ page_number > NUM_PAGES_PER_SEARCH
    /\ hpc' = "quit"
    /\ UNCHANGED <<rest, parsed_articles, siteVars, driver, quits, page_number, navigated, scrolled,
                   extracted, last_height, new_height, articles, idx, page_articles,
                   hub_articles>>

\* scroll_to_load_articles, its first line: last_height is measured.
scroll_first_measure ==
    /\ hpc = "scroll"
    /\ scrolled' = scrolled \cup {page_number}
    /\ last_height' = height
    /\ hpc' = "while"
    /\ UNCHANGED <<rest, parsed_articles, siteVars, driver, quits, page_number, navigated, extracted,
                   new_height, articles, idx, page_articles, hub_articles>>

\* One pass of the while loop: scroll, sleep, measure, compare.
scroll_step ==
    /\ hpc = "while"
    /\ height' = HeightAfterScroll(height, pending, stable)
    /\ pending' = IF pending > 0 THEN pending - 1 ELSE 0
    /\ new_height' = height'
    /\ IF ScrollDone(new_height', last_height)
       THEN hpc' = "find" /\ UNCHANGED last_height
       ELSE hpc' = "while" /\ last_height' = new_height'
    /\ UNCHANGED <<rest, parsed_articles, K, stable, driver, quits, page_number, navigated, scrolled,
                   extracted, articles, idx, page_articles, hub_articles>>

\* driver.execute_script raises inside scroll_to_load_articles.
scroll_raises ==
    /\ hpc \in {"scroll", "while"}
    /\ hpc' = "raised"
    /\ UNCHANGED <<rest, parsed_articles, siteVars, driver, quits, page_number, navigated, scrolled,
                   extracted, last_height, new_height, articles, idx, page_articles,
                   hub_articles>>

\* parse_articles, its first two lines: the nodes of the page.
find_elements ==
    /\ hpc = "find"
    /\ \E ns \in SeqsOf(Nodes, 0, MaxNodes) :
         /\ Len(hub_articles) + CountPresent(ns) <= MaxCollected
         /\ articles' = ns
    /\ idx' = 1
    /\ page_articles' = <<>>
    /\ hpc' = "each"
    /\ UNCHANGED <<rest, parsed_articles, siteVars, driver, quits, page_number, navigated, scrolled,
                   extracted, last_height, new_height, hub_articles>>

\* driver.find_elements raises (it is outside parse_articles' try).
find_elements_raises ==
    /\ hpc = "find"
    /\ hpc' = "raised"
    /\ UNCHANGED <<rest, parsed_articles, siteVars, driver, quits, page_number, navigated, scrolled,
                   extracted, last_height, new_height, articles, idx, page_articles,
                   hub_articles>>

\* One pass of parse_articles' for loop: parse_article on the next node, its
\* article appended, or its exception logged and the loop continued.
parse_article_step ==
    /\ hpc = "each"
    /\ idx <= Len(articles)
    /\ IF articles[idx].present
       THEN /\ page_articles' = Append(page_articles, parse_article(articles[idx]))
            /\ idx' = idx + 1
       ELSE /\ UNCHANGED page_articles
            /\ idx' = AfterFailure(idx, Len(articles))
    /\ UNCHANGED <<rest, parsed_articles, siteVars, hpc, driver, quits, page_number, navigated, scrolled,
                   extracted, last_height, new_height, articles, hub_articles>>

\* parse_articles returns; parse_hub extends its list and takes the next page.
parse_articles_return ==
    /\ hpc = "each"
    /\ idx > Len(articles)
    /\ hub_articles' = hub_articles \o page_articles
    /\ extracted' = extracted \cup {page_number}
    /\ page_number' = page_number + 1
    /\ articles' = <<>> /\ idx' = 0 /\ page_articles' = <<>>
    /\ hpc' = "loop"
    /\ UNCHANGED <<rest, parsed_articles, siteVars, driver, quits, navigated, scrolled, last_height,
                   new_height>>

\* driver.quit() and the return.
driver_quit ==
    /\ hpc = "quit"
    /\ driver' = "closed"
    /\ quits' = quits + 1
    /\ hpc' = "returned"
    /\ UNCHANGED <<rest, parsed_articles, siteVars, page_number, navigated, scrolled, extracted,
                   last_height, new_height, articles, idx, page_articles, hub_articles>>

\* main's loop body on this call's future: result = future.result(), merged.
merge_result ==
    /\ hpc = "returned"
    /\ parsed_articles' = Extend(parsed_articles, hub_articles)
    /\ hpc' = "merged"
    /\ UNCHANGED <<rest, siteVars, driver, quits, page_number, navigated, scrolled,
                   extracted, last_height, new_height, articles, idx, page_articles,
                   hub_articles>>

HubNext ==
    \/ initialize_driver
    \/ initialize_driver_raises
    \/ open_habr_hub
    \/ driver_get_raises
    \/ range_exhausted
    \/ scroll_first_measure
    \/ scroll_step
    \/ scroll_raises
    \/ find_elements
    \/ find_elements_raises
    \/ parse_article_step
    \/ parse_articles_return
    \/ driver_quit
    \/ merge_result

\* The pool, main and save_to_csv at rest.
PoolIdle ==
    /\ CPU_THREADS = "None" /\ width = 0 /\ futures = <<>>
    /\ status = <<>> /\ result = <<>> /\ yielded = {} /\ waiting_at_raise = {}

CsvIdle == cpc = "idle" /\ csv_articles = <<>> /\ unique_links = {} /\ file = <<>>

HubInit ==
    /\ K \in 0..(NUM_PAGES_PER_SEARCH + 1)
    /\ hpc = "call"
    /\ HubIdle
    /\ PoolIdle /\ mpc = "idle"
    /\ parsed_articles \in {<<>>, <<Art("C", "L2")>>}
    /\ CsvIdle

\* A thread that can take a step takes one.
SpecHub == HubInit /\ [][HubNext]_vars /\ WF_vars(HubNext)

\* ------------------------------------------------- claims about parse_hub

\* The nodes of ns whose title link is present, as articles, in order.
Succeeded(ns) ==
    LET ok == SelectSeq(ns, LAMBDA n : n.present)
    IN  [i \in 1..Len(ok) |-> Art(ok[i].title, ok[i].link)]

UpTo(n) == [i \in 1..n |-> i]

HubReturned == hpc \in {"returned", "merged"}

\* C3, as stated: with pages 1..K present and K < NUM_PAGES_PER_SEARCH, a
\* parse_hub call that returns has processed exactly pages 1..K and has never
\* navigated to page K+1.
C3_NeverNavigatesPastK ==
    (K < NUM_PAGES_PER_SEARCH) =>
        /\ K + 1 \notin Range(navigated)
        /\ HubReturned => (scrolled = 1..K /\ extracted = 1..K)

\* C3, amended: with pages 1..K present and K < NUM_PAGES_PER_SEARCH, parse_hub
\* scrolls and extracts only pages among 1..K, and all of them once it returns;
\* it navigates to pages 1, 2, ... in order, to page K+1 at most (the probe that
\* finds the marker absent) and never to page K+2.
C3_StopsAfterProbingNextPage ==
    (K < NUM_PAGES_PER_SEARCH) =>
        /\ scrolled \subseteq 1..K
        /\ extracted \subseteq scrolled
        /\ navigated = UpTo(Len(navigated))
        /\ Len(navigated) <= K + 1
        /\ HubReturned =>
             /\ scrolled = 1..K
             /\ extracted = 1..K
             /\ navigated = UpTo(K + 1)

C3_Witness ==
    /\ hpc = "returned" /\ K = 2
    /\ extracted = {1, 2}
    /\ navigated = <<1, 2, 3>>

\* C4: a parse_hub call that opened a browser session and has ended, by
\* returning or by raising, has quit that session exactly once.
C4_SessionQuitOnce ==
    (hpc \in HubEnded /\ driver # "none") => (quits = 1 /\ driver = "closed")

\* C7: when page 1 carries no marker, parse_hub scrolls nothing, extracts
\* nothing, collects nothing, and merging its result leaves main's collection
\* as it was.
C7_NoFirstPage ==
    /\ [](K = 0 => /\ scrolled = {} /\ extracted = {}
                   /\ hpc \notin {"scroll", "while", "find", "each"}
                   /\ hub_articles = <<>>
                   /\ Len(navigated) <= 1)
    /\ [][K = 0 => parsed_articles' = parsed_articles]_vars

C7_Witness ==
    /\ K = 0 /\ hpc = "merged" /\ navigated = <<1>>
    /\ parsed_articles = <<Art("C", "L2")>>

\* C8: inside parse_articles the list built so far is exactly the articles of
\* the nodes visited whose title link was present, in DOM order; a node whose
\* extraction fails leaves the loop running, and what parse_hub receives at the
\* return is the articles of all the page's successful nodes.
C8_SkipsOnlyFailedNodes ==
    /\ [](hpc = "each" =>
            /\ idx \in 1..(Len(articles) + 1)
            /\ page_articles = Succeeded(SubSeq(articles, 1, idx - 1))
            /\ idx > Len(articles) => page_articles = parse_articles(articles))
    /\ [][hpc = "each" =>
            /\ hpc' \in {"each", "loop"}
            /\ hpc' = "each" => (idx' = idx + 1 /\ articles' = articles)
            /\ hpc' = "loop" => hub_articles' = hub_articles \o Succeeded(articles)]_vars

C8_Witness ==
    /\ hpc = "each" /\ Len(articles) = 2 /\ idx = 3
    /\ ~articles[1].present /\ articles[2].present
    /\ page_articles = <<Art(articles[2].title, articles[2].link)>>

\* C9: the while loop of scroll_to_load_articles is left exactly when the new
\* measurement equals the previous one; no call opens more than
\* NUM_PAGES_PER_SEARCH pages; a call ends unless it meets a page whose height
\* never settles, and on such a page it never gets past the loop.
C9_ScrollUntilStable ==
    /\ [][(hpc = "while" /\ hpc' # "raised") =>
            IF new_height' = last_height
            THEN hpc' = "find"
            ELSE hpc' = "while" /\ last_height' = new_height']_vars
    /\ [](Len(navigated) <= NUM_PAGES_PER_SEARCH)
    /\ <>(hpc \in HubEnded \/ (hpc = "while" /\ ~stable))
    /\ [][(hpc = "while" /\ ~stable) => hpc' \in {"while", "raised"}]_vars

C9_Witness ==
    /\ hpc = "find" /\ page_number = NUM_PAGES_PER_SEARCH
    /\ new_height = last_height /\ new_height > 1

\* ---------------------------------------------------------- save_to_csv

Header == <<"Title", "Link">>

\* None, the default of next(..., None).
None == [title |-> "None", link |-> "None"]

\* `if article:`: None is false, an article (a dict with two keys) is true.
Truthy(a) == a # None

\* set(article['link'] for article in parsed_articles)
LinkSet(parsed) == {parsed[i].link : i \in 1..Len(parsed)}

\* A faulty variant: the last matching article instead of the first.
FirstMatch_last(parsed, link) ==
    LET I == {i \in 1..Len(parsed) : parsed[i].link = link}
    IN  IF I = {} THEN None ELSE parsed[CHOOSE i \in I : \A j \in I : j <= i]

\* next((a for a in parsed_articles if a['link'] == link), None)
FirstMatch(parsed, link) ==
    LET I == {i \in 1..Len(parsed) : parsed[i].link = link}
    IN  IF I = {} THEN None ELSE parsed[CHOOSE i \in I : \A j \in I : i <= j]

\* A faulty variant: a row for every article with the link.
RowsFor_every_match(parsed, link) ==
    LET m == SelectSeq(parsed, LAMBDA a : a.link = link)
    IN  [i \in 1..Len(m) |-> <<m[i].title, m[i].link>>]

\* The body of the for loop over unique_links: the rows one link adds.
RowsFor(parsed, link) ==
    LET article == FirstMatch(parsed, link)
    IN  IF Truthy(article) THEN << <<article.title, article.link>> >> ELSE <<>>

\* The set is built, the file opened, the header written.
csv_open ==
    /\ cpc = "called"
    /\ unique_links' = LinkSet(csv_articles)
    /\ file' = <<Header>>
    /\ cpc' = "rows"
    /\ UNCHANGED <<siteVars, hubVars, poolVars, mpc, parsed_articles, csv_articles>>

\* One pass of the for loop; the set hands out its links in any order.
csv_write_row ==
    /\ cpc = "rows"
    /\ \E link \in unique_links :
         /\ file' = file \o RowsFor(csv_articles, link)
         /\ unique_links' = unique_links \ {link}
    /\ UNCHANGED <<siteVars, hubVars, poolVars, mpc, parsed_articles, cpc, csv_articles>>

\* The loop is over, the file is closed, the function returns.
csv_close ==
    /\ cpc = "rows"
    /\ unique_links = {}
    /\ cpc' = "closed"
    /\ UNCHANGED <<siteVars, hubVars, poolVars, mpc, parsed_articles, csv_articles,
                   unique_links, file>>

CsvInit ==
    /\ csv_articles \in SeqsOf(Article, 0, MaxCsvLen)
    /\ cpc = "called" /\ unique_links = {} /\ file = <<>>
    /\ K = 0 /\ hpc = "idle" /\ HubIdle
    /\ PoolIdle /\ mpc = "idle" /\ parsed_articles = <<>>

CsvNext ==
    \/ csv_open
    \/ csv_write_row
    \/ csv_close

SpecCsv == CsvInit /\ [][CsvNext]_vars

\* ----------------------------------------------- claims about save_to_csv

\* The data rows of the file: what follows the header.
DataRows == IF file = <<>> THEN <<>> ELSE Tail(file)

RowsWithLink(l) == {i \in 1..Len(DataRows) : DataRows[i][2] = l}

\* C1: no two data rows ever share a link, every row's link is a link of the
\* input, and once save_to_csv has returned every distinct link of the input
\* has exactly one row.
C1_OneRowPerDistinctLink ==
    /\ \A i, j \in 1..Len(DataRows) : DataRows[i][2] = DataRows[j][2] => i = j
    /\ \A i \in 1..Len(DataRows) : DataRows[i][2] \in LinkSet(csv_articles)
    /\ cpc = "closed" =>
         /\ \A l \in LinkSet(csv_articles) : Cardinality(RowsWithLink(l)) = 1
         /\ Len(DataRows) = Cardinality(LinkSet(csv_articles))

C1_Witness ==
    /\ cpc = "closed" /\ Len(csv_articles) = 3
    /\ csv_articles[1].link = csv_articles[3].link
    /\ csv_articles[1].link # csv_articles[2].link
    /\ Len(DataRows) = 2

\* Whether <<t, l>> is the title and link of the first article of parsed
\* that carries link l.
IsFirstOfLink(parsed, t, l) ==
    \E i \in 1..Len(parsed) :
        /\ parsed[i] = Art(t, l)
        /\ \A j \in 1..(i - 1) : parsed[j].link # l

Example == <<Art("A", "L1"), Art("B", "L1"), Art("C", "L2")>>

\* C2: every data row carries the title of the first article of the input
\* with its link, whatever order the links are iterated in; on the input
\* [(A,L1),(B,L1),(C,L2)] the rows are exactly (A,L1) and (C,L2).
C2_TitleOfFirstOccurrence ==
    /\ \A i \in 1..Len(DataRows) :
         IsFirstOfLink(csv_articles, DataRows[i][1], DataRows[i][2])
    /\ (cpc = "closed" /\ csv_articles = Example) =>
         /\ Len(DataRows) = 2
         /\ Range(DataRows) = {<<"A", "L1">>, <<"C", "L2">>}

C2_Witness ==
    /\ cpc = "closed" /\ csv_articles = Example
    /\ file = <<Header, <<"C", "L2">>, <<"A", "L1">> >>

\* ------------------------------------------------------------------ main

\* ThreadPoolExecutor(max_workers=v): None takes the machine's default width;
\* anything else is compared with 0, which a string (all os.getenv gives) is not.
PoolCtorAccepts(v) == v = "None"

NumDifficulties == Len(ALLOWED_DIFFICULTIES)
NumTasks == NumHubs * NumDifficulties

\* The arguments of the n-th submit of the nested loops, n counted from 0.
TaskArgs(n) == <<(n \div NumDifficulties) + 1,
                 ALLOWED_DIFFICULTIES[(n % NumDifficulties) + 1]>>

Futures == 1..Len(futures)

Finished(i) == status[i] \in {"returned", "raised"}

\* A faulty variant: shutdown(wait=False).
PoolJoined_no_wait == TRUE

\* The executor's __exit__, shutdown(wait=True): the worker threads are
\* joined, and they leave only with the queue empty.
PoolJoined == \A i \in Futures : Finished(i)

\* The hubs the pool's tasks crawl: per page carrying the marker, its nodes.
MainSites ==
    { <<>>,
      << <<NoLink>> >>,
      << <<Node(Art("A", "L1")), NoLink>>, <<Node(Art("B", "L2"))>> >> }

\* parse_hub's for loop from page_number on, over a hub whose scrolls end.
RECURSIVE parse_hub_from(_, _)
parse_hub_from(site, page) ==
    IF page > NUM_PAGES_PER_SEARCH \/ ~MarkerPresent(Len(site), page)
    THEN <<>>
    ELSE parse_articles(site[page]) \o parse_hub_from(site, page + 1)

\* What parse_hub returns for a hub.
parse_hub(site) == parse_hub_from(site, 1)

\* with ThreadPoolExecutor(max_workers=CPU_THREADS) as executor:
create_pool ==
    /\ mpc = "start"
    /\ PoolCtorAccepts(CPU_THREADS)
    /\ \E w \in 1..MaxWorkers : width' = w
    /\ mpc' = "submit"
    /\ UNCHANGED <<siteVars, hubVars, csvVars, parsed_articles, CPU_THREADS,
                   futures, status, result, yielded, waiting_at_raise>>

\* The constructor raises TypeError; main ends with it.
create_pool_raises ==
    /\ mpc = "start"
    /\ ~PoolCtorAccepts(CPU_THREADS)
    /\ mpc' = "crashed"
    /\ UNCHANGED <<siteVars, hubVars, csvVars, parsed_articles, poolVars>>

\* One executor.submit of the nested for loops.
submit ==
    /\ mpc = "submit"
    /\ futures' = Append(futures, TaskArgs(Len(futures)))
    /\ status' = Append(status, "queued")
    /\ result' = Append(result, <<>>)
    /\ mpc' = IF Len(futures) + 1 = NumTasks THEN "collect" ELSE "submit"
    /\ UNCHANGED <<siteVars, hubVars, csvVars, parsed_articles, CPU_THREADS, width,
                   yielded, waiting_at_raise>>

\* A free worker thread takes the oldest queued work item.
start_task(i) ==
    /\ status[i] = "queued"
    /\ \A j \in 1..(i - 1) : status[j] # "queued"
    /\ Cardinality({j \in Futures : status[j] = "running"}) < width
    /\ status' = [status EXCEPT ![i] = "running"]
    /\ UNCHANGED <<siteVars, hubVars, csvVars, parsed_articles, mpc, CPU_THREADS,
                   width, futures, result, yielded, waiting_at_raise>>

\* A task's parse_hub returns: its future holds the list.
task_returns(i) ==
    /\ status[i] = "running"
    /\ \E site \in MainSites : result' = [result EXCEPT ![i] = parse_hub(site)]
    /\ status' = [status EXCEPT ![i] = "returned"]
    /\ UNCHANGED <<siteVars, hubVars, csvVars, parsed_articles, mpc, CPU_THREADS,
                   width, futures, yielded, waiting_at_raise>>

\* A task's parse_hub raises: its future holds the exception.
task_raises(i) ==
    /\ status[i] = "running"
    /\ status' = [status EXCEPT ![i] = "raised"]
    /\ UNCHANGED <<siteVars, hubVars, csvVars, parsed_articles, mpc, CPU_THREADS,
                   width, futures, result, yielded, waiting_at_raise>>

\* as_completed yields a finished future, future.result() returns its list.
collect_result(i) ==
    /\ mpc = "collect"
    /\ i \notin yielded
    /\ status[i] = "returned"
    /\ yielded' = yielded \cup {i}
    /\ parsed_articles' = Extend(parsed_articles, result[i])
    /\ UNCHANGED <<siteVars, hubVars, csvVars, mpc, CPU_THREADS, width, futures,
                   status, result, waiting_at_raise>>

\* as_completed yields a finished future, future.result() raises its
\* exception: main leaves the loop and the with block.
collect_raises(i) ==
    /\ mpc = "collect"
    /\ i \notin yielded
    /\ status[i] = "raised"
    /\ yielded' = yielded \cup {i}
    /\ waiting_at_raise' = {<<j, status[j]>> : j \in {k \in Futures : ~Finished(k)}}
    /\ mpc' = "unwind"
    /\ UNCHANGED <<siteVars, hubVars, csvVars, parsed_articles, CPU_THREADS, width,
                   futures, status, result>>

\* as_completed is exhausted; the with block is left once the pool is joined.
exit_pool ==
    /\ mpc = "collect"
    /\ yielded = Futures
    /\ PoolJoined
    /\ mpc' = "save"
    /\ UNCHANGED <<siteVars, hubVars, csvVars, parsed_articles, poolVars>>

\* The with block is left by the exception once the pool is joined; main
\* ends with the exception.
unwind_pool ==
    /\ mpc = "unwind"
    /\ PoolJoined
    /\ mpc' = "crashed"
    /\ UNCHANGED <<siteVars, hubVars, csvVars, parsed_articles, poolVars>>

\* save_to_csv(parsed_articles, filename) is called.
call_save_to_csv ==
    /\ mpc = "save"
    /\ cpc = "idle"
    /\ csv_articles' = parsed_articles
    /\ cpc' = "called"
    /\ UNCHANGED <<siteVars, hubVars, poolVars, mpc, parsed_articles, unique_links,
                   file>>

\* save_to_csv has returned; the total is logged and main returns.
main_returns ==
    /\ mpc = "save"
    /\ cpc = "closed"
    /\ mpc' = "done"
    /\ UNCHANGED <<siteVars, hubVars, poolVars, parsed_articles, csvVars>>

Init ==
    /\ CPU_THREADS \in {"None", "4"}
    /\ mpc = "start"
    /\ width = 0 /\ futures = <<>> /\ status = <<>> /\ result = <<>>
    /\ yielded = {} /\ waiting_at_raise = {}
    /\ parsed_articles = <<>>
    /\ CsvIdle
    /\ K = 0 /\ hpc = "idle" /\ HubIdle

Next ==
    \/ create_pool
    \/ create_pool_raises
    \/ submit
    \/ \E i \in Futures : start_task(i)
    \/ \E i \in Futures : task_returns(i)
    \/ \E i \in Futures : task_raises(i)
    \/ \E i \in Futures : collect_result(i)
    \/ \E i \in Futures : collect_raises(i)
    \/ exit_pool
    \/ unwind_pool
    \/ call_save_to_csv
    \/ csv_open
    \/ csv_write_row
    \/ csv_close
    \/ main_returns

Spec == Init /\ [][Next]_vars

\* ------------------------------------------------------ claims about main

MainEnded == mpc \in {"done", "crashed"}

SomeTaskRaised == \E i \in Futures : status[i] = "raised"

\* How many times article a occurs in the list s.
Occurrences(s, a) == Cardinality({k \in 1..Len(s) : s[k] = a})

RECURSIVE SumOver(_, _)
SumOver(I, a) ==
    IF I = {} THEN 0
    ELSE LET i == CHOOSE j \in I : TRUE
         IN  Occurrences(result[i], a) + SumOver(I \ {i}, a)

\* C5: when main has ended and some task raised, every article of every task
\* that returned is in main's collection and has its link in a row of the file.
C5_SuccessfulResultsSurviveAFailure ==
    (MainEnded /\ SomeTaskRaised) =>
        \A i \in Futures : status[i] = "returned" =>
            \A k \in 1..Len(result[i]) :
                /\ result[i][k] \in Range(parsed_articles)
                /\ RowsWithLink(result[i][k].link) # {}

\* C6: when main has ended and no task raised, there is exactly one future
\* per (hub template, difficulty) pair, nothing was written before every task
\* had finished, and the collection handed to the writer holds every article
\* as many times as the tasks returned it.
C6_EveryPairSubmittedAndMerged ==
    /\ cpc # "idle" => (mpc \in {"save", "done"} /\ PoolJoined)
    /\ (MainEnded /\ ~SomeTaskRaised) =>
         /\ Len(futures) = NumTasks
         /\ \A h \in 1..NumHubs : \A d \in Range(ALLOWED_DIFFICULTIES) :
              Cardinality({i \in Futures : futures[i] = <<h, d>>}) = 1
         /\ cpc = "closed"
         /\ \A a \in Article :
              Occurrences(csv_articles, a) = SumOver(Futures, a)

\* The same, for the runs in which the pool could be created.
MergeCompleteOncePoolExists ==
    PoolCtorAccepts(CPU_THREADS) => C6_EveryPairSubmittedAndMerged

\* C10: once main is out of the with block, by the normal way or by a task's
\* exception, every submitted task has run to its end: those that were
\* running and those that were still queued when the exception reached main.
C10_FailureCancelsNoSibling ==
    /\ (mpc \in {"save", "done"} \/ (mpc = "crashed" /\ futures # <<>>)) =>
         /\ Len(futures) = NumTasks
         /\ \A i \in Futures : Finished(i)
    /\ \A w \in waiting_at_raise :
         mpc = "crashed" => status[w[1]] \in {"returned", "raised"}

C10_Witness ==
    /\ mpc = "crashed"
    /\ \E q, r \in waiting_at_raise :
         /\ q[2] = "queued" /\ status[q[1]] = "returned" /\ result[q[1]] # <<>>
         /\ r[2] = "running" /\ status[r[1]] = "returned"

====
